---- MODULE Spec2Model ----
(***************************************************************************)
(* Model of src/clean_extractions.py: class Cleaner, which cleans a pandas *)
(* DataFrame of eTox extractions (row filter, time normalisation, unit     *)
(* classification, conversion of concentration values).                    *)
(*                                                                         *)
(* Python strings that the code inspects character by character            *)
(* (value_unit) are sequences of one-character strings; strings the code   *)
(* only compares for equality (isin lists, parameter names, column names)  *)
(* are atomic strings.  Numbers are exact decimals-over-a-denominator      *)
(* n/d * 10^e; a missing value (NaN) is the number with d = 0.             *)
(***************************************************************************)
EXTENDS Integers, Sequences, FiniteSets, TLC

----------------------------------------------------------------------------
(* Numbers *)

RECURSIVE GCD(_, _)
GCD(a, b) == IF b = 0 THEN a ELSE GCD(b, a % b)

Abs(a) == IF a < 0 THEN -a ELSE a

RECURSIVE Pow10(_)
Pow10(k) == IF k <= 0 THEN 1 ELSE 10 * Pow10(k - 1)

NaN == [n |-> 0, d |-> 0, e |-> 0]

IsNaN(x) == x.d = 0

\* n/d * 10^e, reduced
Num(n, d, e) ==
    LET g == GCD(Abs(n), Abs(d))
        s == IF d < 0 THEN -1 ELSE 1
    IN  IF d = 0 THEN NaN
        ELSE IF n = 0 THEN [n |-> 0, d |-> 1, e |-> 0]
        ELSE [n |-> s * (n \div g), d |-> s * (d \div g), e |-> e]

Whole(n) == Num(n, 1, 0)

Times(x, y) == IF IsNaN(x) \/ IsNaN(y) THEN NaN ELSE Num(x.n * y.n, x.d * y.d, x.e + y.e)

Over(x, y) == IF IsNaN(x) \/ IsNaN(y) THEN NaN ELSE Num(x.n * y.d, x.d * y.n, x.e - y.e)

Min2(a, b) == IF a < b THEN a ELSE b

Plus(x, y) ==
    IF IsNaN(x) \/ IsNaN(y) THEN NaN
    ELSE LET m == Min2(x.e, y.e)
         IN  Num(x.n * Pow10(x.e - m) * y.d + y.n * Pow10(y.e - m) * x.d, x.d * y.d, m)

\* numeric equality (NaN equals nothing, as in IEEE arithmetic)
NumEq(x, y) ==
    /\ ~IsNaN(x)
    /\ ~IsNaN(y)
    /\ LET m == Min2(x.e, y.e)
       IN  x.n * Pow10(x.e - m) * y.d = y.n * Pow10(y.e - m) * x.d

\* x < 0 (False for NaN, as pandas' comparison)
Negative(x) == ~IsNaN(x) /\ x.n < 0

----------------------------------------------------------------------------
(* Python str operations on sequences of characters *)

UpperChars == <<"A","B","C","D","E","F","G","H","I","J","K","L","M",
                "N","O","P","Q","R","S","T","U","V","W","X","Y","Z">>
LowerChars == <<"a","b","c","d","e","f","g","h","i","j","k","l","m",
                "n","o","p","q","r","s","t","u","v","w","x","y","z">>

LowerChar(c) ==
    IF \E i \in DOMAIN UpperChars : UpperChars[i] = c
    THEN LowerChars[CHOOSE i \in DOMAIN UpperChars : UpperChars[i] = c]
    ELSE c

\* s.lower()
lower(s) == [i \in DOMAIN s |-> LowerChar(s[i])]

\* s.startswith(p)
startswith(s, p) == Len(p) <= Len(s) /\ SubSeq(s, 1, Len(p)) = p

\* sub in s
contains(s, sub) ==
    \E i \in 0..(Len(s) - Len(sub)) : SubSeq(s, i + 1, i + Len(sub)) = sub

RECURSIVE lstrip(_, _)
lstrip(s, c) == IF s # <<>> /\ Head(s) = c THEN lstrip(Tail(s), c) ELSE s

RECURSIVE rstrip(_, _)
rstrip(s, c) ==
    IF s # <<>> /\ s[Len(s)] = c THEN rstrip(SubSeq(s, 1, Len(s) - 1), c) ELSE s

\* s.strip(c) for a one-character c
strip(s, c) == rstrip(lstrip(s, c), c)

\* s.replace(old, new), leftmost non-overlapping occurrences
RECURSIVE replace(_, _, _)
replace(s, old, new) ==
    IF s = <<>> THEN <<>>
    ELSE IF startswith(s, old)
         THEN new \o replace(SubSeq(s, Len(old) + 1, Len(s)), old, new)
         ELSE <<Head(s)>> \o replace(Tail(s), old, new)

\* s.split(c) for a one-character c: always at least one part
RECURSIVE split(_, _)
split(s, c) ==
    IF \E i \in DOMAIN s : s[i] = c
    THEN LET i == CHOOSE j \in DOMAIN s : s[j] = c /\ \A k \in 1..(j - 1) : s[k] # c
         IN  <<SubSeq(s, 1, i - 1)>> \o split(SubSeq(s, i + 1, Len(s)), c)
    ELSE <<s>>

\* x in list
InList(x, list) == \E i \in DOMAIN list : list[i] = x

----------------------------------------------------------------------------
(* Unit classifier, step A: the test get_concentration_units applies to each *)
(* distinct value_unit string (the if/elif chain appends the unit when any   *)
(* branch matches).                                                          *)

IsConcentrationUnit(unit) ==
    LET u == lower(unit)
    IN  \/ contains(u, <<"m","g">>)
        \/ startswith(strip(u, "("), <<"g">>)
        \/ contains(u, <<"m","o","l">>)
        \/ contains(u, <<"m","i","l","l","i","g","r","a","m","s">>)
        \/ startswith(u, <<"n","g">>)
        \/ startswith(u, <<"u","g">>)
        \/ contains(u, <<"p","g">>)
        \/ contains(u, <<"r","a","t","i","o">>)
        \/ startswith(u, <<"m","m">>)
        \/ startswith(u, <<"m","c","g">>)
        \/ contains(u, <<"m"," ","g"," ">>)
        \/ startswith(u, <<"m","c","m">>)
        \/ contains(u, <<"m","i","c","r","o","g">>)
        \/ startswith(u, <<"u","m">>)
        \/ startswith(u, <<"n","m">>)
        \/ contains(u, <<"p","m","o","i">>)
        \/ startswith(unit, <<"M","N","O","L">>)
        \/ contains(unit, <<"n","r","n","o","l","/","L">>)
        \/ contains(u, <<"m"," ","e"," ","q">>)
        \/ contains(u, <<"m","e","q">>)
        \/ contains(unit, <<"M","A","E","Q","/","L">>)
        \/ contains(unit, <<"M","E"," ","Q","/","L">>)

----------------------------------------------------------------------------
(* Unit classifier, step C: the token list args_ that correct_units builds   *)
(* for one unit, by the number of parts unit.split('/') has.                 *)

\* len(unit_split) == 2
args_two_parts(unit_split) ==
    LET unit_ == lower(unit_split[1])
        liter == lower(unit_split[2])
        scale == IF \/ contains(unit_, <<"u">>)
                    \/ startswith(unit_, <<"m","c">>)
                    \/ contains(unit_, <<"m","i","c","r","o">>)
                 THEN <<"micro">>
                 ELSE IF startswith(unit_, <<"p">>) THEN <<"pico">>
                 ELSE IF startswith(unit_, <<"n">>) THEN <<"nano">>
                 ELSE <<>>
        mol   == IF startswith(strip(strip(strip(lower(unit_), "?"), "*"), "<"), <<"m","o","l">>)
                 THEN <<"mol">> ELSE <<>>
        basis == IF \/ startswith(replace(replace(unit_, <<" ">>, <<>>), <<"g","m">>, <<"m","g">>),
                                  <<"m","g">>)
                    \/ startswith(unit_, <<"m","k">>)
                    \/ contains(lower(unit_), <<"m","i","l","l","i","g","r","a","m","s">>)
                 THEN <<"miligram">>
                 ELSE IF startswith(strip(lower(unit_), "("), <<"g">>) THEN <<"gram">>
                 ELSE <<>>
        vol   == IF \/ contains(liter, <<"d","l">>)
                    \/ contains(liter, <<"d","e","c","i","l","i","t","e","r">>)
                    \/ contains(lower(replace(liter, <<" ">>, <<>>)), <<"1","0","0","m","l">>)
                 THEN <<"deciliter">>
                 ELSE IF contains(liter, <<"m","l">>) THEN <<"mililiter">>
                 ELSE <<>>
    IN  scale \o mol \o basis \o vol

\* len(unit_split) > 2, after the unpacking into three names succeeded
args_three_parts(unit_split) ==
    LET unit_ == lower(unit_split[1])
        time  == lower(unit_split[2])
        liter == lower(unit_split[3])
        scale == IF contains(unit_, <<"n">>) THEN <<"nano">>
                 ELSE IF contains(unit_, <<"u">>) THEN <<"micro">>
                 ELSE <<>>
        mid   == IF contains(time, <<"m","i","n">>) THEN <<"minute">>
                 ELSE IF contains(time, <<"m","l">>) THEN <<"mililiter">>
                 ELSE <<>>
        last  == IF contains(liter, <<"m","i","n">>) THEN <<"minute">>
                 ELSE IF startswith(liter, <<"g">>) THEN <<"gram">>
                 ELSE <<>>
    IN  scale \o mid \o last

\* len(unit_split) == 1
args_one_part(unit_split) ==
    LET unit_ == lower(unit_split[1])
        scale == IF startswith(unit_, <<"n">>) THEN <<"nano">>
                 ELSE IF startswith(unit_, <<"u">>) \/ contains(unit_, <<"m","i","c","r","o">>)
                      THEN <<"micro">>
                 ELSE <<>>
        basis == IF startswith(unit_, <<"g">>) THEN <<"gram">>
                 ELSE IF startswith(unit_, <<"m","g">>) THEN <<"miligram">>
                 ELSE <<>>
        vol   == IF \/ contains(unit_, <<"%">>)
                    \/ contains(lower(replace(unit_, <<" ">>, <<>>)), <<"1","0","0","m","l">>)
                 THEN <<"deciliter">> ELSE <<>>
    IN  scale \o basis \o vol

\* The branch structure of the loop body up to the selection of the rows.
\* "unit_, time, liter = [...]" raises ValueError when the list has more than
\* three elements.
unit_args(unit) ==
    LET unit_split == split(unit, "/")
    IN  IF Len(unit_split) = 2
        THEN [err |-> "none", args |-> args_two_parts(unit_split)]
        ELSE IF Len(unit_split) > 2
        THEN IF Len(unit_split) = 3
             THEN [err |-> "none", args |-> args_three_parts(unit_split)]
             ELSE [err |-> "ValueError", args |-> <<>>]
        ELSE [err |-> "none", args |-> args_one_part(unit_split)]

----------------------------------------------------------------------------
(* Value converter: the arithmetic of convert_values_to_SI.                  *)

convert_values_to_SI(value, weight, arguments) ==
    LET v1 == IF InList("micro", arguments) THEN Times(value, Num(1, 1, -3))
              ELSE IF InList("nano", arguments) THEN Times(value, Num(1, 1, -6))
              ELSE IF InList("pico", arguments) THEN Times(value, Num(1, 1, -9))
              ELSE value
        v2 == IF InList("gram", arguments) THEN Over(Times(v1, Whole(1000)), weight)
              ELSE IF InList("mol", arguments) THEN Times(v1, Whole(1000))
              ELSE IF InList("miligram", arguments) THEN Over(v1, weight)
              ELSE v1
        v3 == IF InList("mililiter", arguments) THEN Times(v2, Num(1, 1, -3))
              ELSE IF InList("deciliter", arguments) THEN Times(v2, Num(1, 1, -1))
              ELSE v2
    IN  IF InList("minute", arguments) THEN Times(v3, Whole(60)) ELSE v3

----------------------------------------------------------------------------
(* Inputs.  A row of the DataFrame is a record: idx is its index label      *)
(* (unique, as in a frame built with the default index), the next seven     *)
(* fields are the input columns named by the constructor arguments, the     *)
(* last five the columns the Cleaner adds.  columns lists, in order, the    *)
(* added columns the frame actually has; a cell of a column the frame does  *)
(* not have, or a missing cell, is NaN ("NaN" for the text column).         *)

MaxRows == 2
MaxRuns == 2

u_mg_dL    == <<"m","g","/","d","L">>
u_ug_mL    == <<"u","g","/","m","L">>
u_g_L      == <<"g","/","L">>
u_mmol_L   == <<"m","m","o","l","/","L">>
u_ratio    == <<"r","a","t","i","o">>
u_mg_kg_d_mL == <<"m","g","/","k","g","/","d","/","m","L">>
u_nmol_min_mL == <<"n","m","o","l","/","m","i","n","/","m","L">>
u_U_L      == <<"U","/","L">>
u_percent  == <<"%">>

InputColumns == <<"timepoint", "timepoint_unit", "animal_age", "animal_age_unit",
                  "parameter", "value", "value_unit">>

NumericColumns == {"timepoint", "animal_age", "value", "age_at_start_days",
                   "timepoint_days", "timepoint_age_days", "average_value_fixed"}

Row(tp, tpu, age, ageu, par, val, vu) ==
    [idx |-> 0, timepoint |-> tp, timepoint_unit |-> tpu, animal_age |-> age,
     animal_age_unit |-> ageu, parameter |-> par, value |-> val, value_unit |-> vu,
     age_at_start_days |-> NaN, timepoint_days |-> NaN, timepoint_age_days |-> NaN,
     average_value_fixed |-> NaN, unit_fixed |-> "NaN"]

RowPool ==
    { Row(Whole(3),  "Hours",   Whole(2),  "Weeks",      "glucose", Whole(50), u_mg_dL),
      Row(Whole(2),  "Days",    Whole(3),  "Weeks",      "albumin", Whole(20), u_mg_dL),
      Row(Whole(0),  "Days",    NaN,       "Weeks",      "glucose", Whole(10), u_ug_mL),
      Row(Whole(1),  "Day",     Whole(1),  "Month",      "glucose", Whole(10), u_ug_mL),
      Row(Whole(-1), "Days",    Whole(2),  "Weeks",      "sodium",  Whole(10), u_mmol_L),
      Row(Whole(4),  "Weeks",   Whole(8),  "Week",       "sodium",  Whole(10), u_mmol_L),
      Row(Whole(1),  "Week",    Whole(-5), "Days",       "albumin", Whole(4),  u_g_L),
      Row(NaN,       "Days",    Whole(2),  "Months",     "glucose", Whole(5),  u_mg_kg_d_mL),
      Row(Whole(2),  "Days",    Whole(2),  "Months",     "glucose", Whole(5),  u_mg_kg_d_mL),
      Row(Whole(0),  "day",     Whole(3),  "Fortnights", "sodium",  Whole(7),  u_ratio),
      Row(Whole(2),  "hours",   Whole(1),  "Year",       "ALT",     Whole(7),  u_U_L),
      Row(Whole(5),  "Minutes", Whole(0),  "0",          "sodium",  Whole(3),  u_nmol_min_mL),
      Row(Whole(1),  "Months",  Whole(1),  "Weeka",      "albumin", Whole(40), u_percent),
      Row(Whole(0),  "Years",   Whole(6),  "Moths",      "ALT",     Whole(9),  u_U_L) }

\* the frames handed to the constructor: up to MaxRows rows, labelled 1..n
Frames ==
    UNION { { [k \in 1..n |-> [f[k] EXCEPT !.idx = k]] : f \in [1..n -> RowPool] } : n \in 0..MaxRows }

\* molecular weights the directory can report (g/mol); NaN stands for None
w_glucose == Num(18016, 1, -2)
w_other   == Num(5844, 1, -2)

\* pcp.get_compounds(name, 'name'): the molecular_weight of each match, in
\* returned order
CompoundLists ==
    { <<>>, <<NaN>>, <<w_glucose>>, <<w_glucose, w_other>>, <<NaN, w_other>>,
      <<w_other, NaN>> }

----------------------------------------------------------------------------
(* DataFrame helpers *)

\* Series.unique(): distinct values in order of first appearance
RECURSIVE unique(_)
unique(s) ==
    IF s = <<>> THEN <<>>
    ELSE LET rest == unique(SubSeq(s, 1, Len(s) - 1))
             x    == s[Len(s)]
         IN  IF InList(x, rest) THEN rest ELSE Append(rest, x)

Column(d, c) == [k \in DOMAIN d |-> d[k][c]]

\* the frame gains column c at the right unless it has it
WithColumn(cols, c) == IF InList(c, cols) THEN cols ELSE Append(cols, c)

----------------------------------------------------------------------------
(* Row filter *)

\* remove_nans with the comparison "<= 0" in place of "< 0"
remove_nans_frame_le(d) ==
    LET labels == { d[k].idx : k \in { j \in DOMAIN d :
                        Negative(d[j].timepoint) \/ NumEq(d[j].timepoint, Whole(0)) } }
        kept   == SelectSeq(d, LAMBDA r : r.idx \notin labels)
    IN  SelectSeq(kept, LAMBDA r : ~IsNaN(r.timepoint) /\ ~IsNaN(r.animal_age))

\* remove_nans: drop() takes the index labels of the rows with timepoint < 0,
\* dropna() then removes the rows with a missing timepoint or animal age.
remove_nans_frame(d) ==
    LET labels == { d[k].idx : k \in { j \in DOMAIN d : Negative(d[j].timepoint) } }
        kept   == SelectSeq(d, LAMBDA r : r.idx \notin labels)
    IN  SelectSeq(kept, LAMBDA r : ~IsNaN(r.timepoint) /\ ~IsNaN(r.animal_age))

----------------------------------------------------------------------------
(* Time normaliser *)

\* the cell of 'age_at_start(days)' after the four masked assignments; a row
\* whose unit is in none of the lists keeps the cell it had
age_at_start_cell(r) ==
    IF r.animal_age_unit \in {"Weeks", "Week", "weeks", "Weels", "Weeka"}
    THEN Times(r.animal_age, Whole(7))
    ELSE IF r.animal_age_unit \in {"Months", "Month", "Moths", "Monhts"}
    THEN Times(r.animal_age, Whole(30))
    ELSE IF r.animal_age_unit \in {"Years", "Year"}
    THEN Times(r.animal_age, Whole(360))
    ELSE IF r.animal_age_unit \in {"Days", "Day", "0"}
    THEN r.animal_age
    ELSE r.age_at_start_days

animal_age_transformation_frame(d) ==
    [k \in DOMAIN d |-> [d[k] EXCEPT !.age_at_start_days = age_at_start_cell(d[k])]]

\* the cell of 'timepoint(days)' after the six masked assignments
timepoint_cell(r) ==
    IF r.timepoint_unit \in {"Weeks", "Week", "WEEK", "week"}
    THEN Times(r.timepoint, Whole(7))
    ELSE IF r.timepoint_unit \in {"Months", "Month"}
    THEN Times(r.timepoint, Whole(30))
    ELSE IF r.timepoint_unit \in {"Years"}
    THEN Times(r.timepoint, Whole(360))
    ELSE IF r.timepoint_unit \in {"Hours"}
    THEN Over(r.timepoint, Whole(24))
    ELSE IF r.timepoint_unit \in {"Minutes"}
    THEN Over(r.timepoint, Whole(1440))
    ELSE IF r.timepoint_unit \in {"Days", "Day", "Day(s)", "day"}
    THEN r.timepoint
    ELSE r.timepoint_days

\* DataFrame.sum(axis=1) over the given columns: skipna is the default, so a
\* missing cell adds nothing and a row of missing cells sums to 0; a text
\* column is left out of the sum
RECURSIVE row_sum(_, _)
row_sum(r, cols) ==
    IF cols = <<>> THEN Whole(0)
    ELSE LET c    == Head(cols)
             rest == row_sum(r, Tail(cols))
         IN  IF c \in NumericColumns /\ ~IsNaN(r[c]) THEN Plus(r[c], rest) ELSE rest

\* df.iloc[:, -2:], the two rightmost columns of the frame
last_two(cols) == SubSeq(InputColumns \o cols, Len(InputColumns \o cols) - 1,
                         Len(InputColumns \o cols))

timepoint_transformation_frame(d, cols) ==
    LET cols1 == WithColumn(cols, "timepoint_days")
        d1    == [k \in DOMAIN d |-> [d[k] EXCEPT !.timepoint_days = timepoint_cell(d[k])]]
    IN  [k \in DOMAIN d1 |->
            [d1[k] EXCEPT !.timepoint_age_days = row_sum(d1[k], last_two(cols1))]]

----------------------------------------------------------------------------
(* Unit classifier, steps A and B *)

get_concentration_units(d) == SelectSeq(unique(Column(d, "value_unit")), IsConcentrationUnit)

\* clean_dataframe: the distinct parameters of the rows whose unit is in the list
param_from_conc_unit_list(d, units) ==
    unique(Column(SelectSeq(d, LAMBDA r : InList(r.value_unit, units)), "parameter"))

\* "if mol_weight:"
Truthy(w) == ~IsNaN(w) /\ w.n # 0

\* the inner loop of get_parameter_weights: every match with a weight updates
\* the entry of the parameter
RECURSIVE recorded_weight(_, _)
recorded_weight(compounds, current) ==
    IF compounds = <<>> THEN current
    ELSE recorded_weight(Tail(compounds),
                         IF Truthy(Head(compounds)) THEN Head(compounds) ELSE current)

\* get_parameter_weights, given what the directory returns for each name
get_parameter_weights(parameter_list, directory) ==
    LET names == { parameter_list[k] : k \in DOMAIN parameter_list }
        found == { p \in names : ~IsNaN(recorded_weight(directory[p], NaN)) }
    IN  [p \in found |-> recorded_weight(directory[p], NaN)]

----------------------------------------------------------------------------
(* Value converter *)

Self == [kind |-> "Cleaner", rows |-> <<>>]
DataFrame(rows) == [kind |-> "DataFrame", rows |-> rows]

\* values_to_SI as declared, "def values_to_SI(param_per_unit_df,
\* parameter_weight, *args)": iterrows() is looked up on whatever object is bound
\* to the first parameter, and convert_values_to_SI is a bare name, which the
\* module does not define, so the first row with a known weight raises NameError.
values_to_SI(param_per_unit_df, parameter_weight, args) ==
    IF param_per_unit_df.kind # "DataFrame"
    THEN [err |-> "AttributeError", vals |-> <<>>]
    ELSE IF \E k \in DOMAIN param_per_unit_df.rows :
                param_per_unit_df.rows[k].parameter \in DOMAIN parameter_weight
    THEN [err |-> "NameError", vals |-> <<>>]
    ELSE [err |-> "none", vals |-> <<>>]

\* A variant of the call below, not the code: what it would return were
\* values_to_SI declared with self and convert_values_to_SI reached through
\* the class.
values_to_SI_resolved(param_per_unit, parameter_weight, args_) ==
    LET known == SelectSeq(param_per_unit, LAMBDA r : r.parameter \in DOMAIN parameter_weight)
    IN  [err  |-> "none",
         vals |-> [k \in DOMAIN known |->
                      convert_values_to_SI(known[k].value, parameter_weight[known[k].parameter],
                                           args_)]]

\* the call in correct_units, "self.values_to_SI(param_per_unit,
\* parameter_weight, args_)": the instance is passed as the first positional
\* argument, so the callee's param_per_unit_df is the Cleaner, its
\* parameter_weight the frame, and the other two land in *args
self_values_to_SI(param_per_unit, parameter_weight, args_) ==
    values_to_SI(Self, DataFrame(param_per_unit), <<parameter_weight, args_>>)

\* the rows correct_units assigns list_of_vals to (unit matches and the
\* parameter is a key of parameter_weight), as positions of the frame
assigned_rows(d, unit, parameter_weight) ==
    { k \in DOMAIN d : d[k].value_unit = unit /\ d[k].parameter \in DOMAIN parameter_weight }

\* one pass of the loop body of correct_units, then the remaining units; the
\* frame is changed in place, so what earlier passes wrote stays when a later
\* pass raises
RECURSIVE correct_units_loop(_, _, _, _)
correct_units_loop(d, cols, units, parameter_weight) ==
    IF units = <<>> THEN [df |-> d, columns |-> cols, err |-> "none", unit |-> <<>>]
    ELSE
    LET unit     == Head(units)
        a        == unit_args(unit)
        param_per_unit == SelectSeq(d, LAMBDA r : r.value_unit = unit)
        res      == self_values_to_SI(param_per_unit, parameter_weight, a.args)
        rows     == assigned_rows(d, unit, parameter_weight)
        rank(k)  == Cardinality({ j \in rows : j <= k })
        d1       == [k \in DOMAIN d |->
                       IF k \in rows
                       THEN [d[k] EXCEPT !.average_value_fixed = res.vals[rank(k)]]
                       ELSE d[k]]
        d2       == [k \in DOMAIN d1 |->
                       IF d1[k].value_unit = unit
                       THEN [d1[k] EXCEPT !.unit_fixed = "mM"]
                       ELSE d1[k]]
        cols2    == WithColumn(WithColumn(cols, "average_value_fixed"), "unit_fixed")
    IN  IF a.err # "none"
        THEN [df |-> d, columns |-> cols, err |-> a.err, unit |-> unit]
        ELSE IF res.err # "none"
        THEN [df |-> d, columns |-> cols, err |-> res.err, unit |-> unit]
        ELSE IF Len(res.vals) # Cardinality(rows)
        THEN [df |-> d, columns |-> cols, err |-> "ValueError", unit |-> unit]
        ELSE correct_units_loop(d2, cols2, Tail(units), parameter_weight)

----------------------------------------------------------------------------
(* State *)

VARIABLES
    df,                   \* self.df, the rows of the frame
    columns,              \* the added columns the frame has, left to right
    pc,                   \* position in clean_dataframe
    run,                  \* number of calls of clean_dataframe so far
    df_in,                \* the frame as it was when the current call began
    concentration_units,  \* local of clean_dataframe
    parameter_list,       \* param_from_conc_unit_list
    directory,            \* what the lookup returned for each name of the list
    parameter_weight,     \* local of clean_dataframe
    error,                \* the exception that ended the call, "none" if none
    raised_at,            \* the unit correct_units was at when it raised
    conv                  \* a direct call of the conversion functions

vars == <<df, columns, pc, run, df_in, concentration_units, parameter_list, directory,
          parameter_weight, error, raised_at, conv>>

ConvIdle == [phase |-> "idle", unit |-> <<>>, value |-> NaN, weight |-> NaN,
             err |-> "none", args |-> <<>>, result |-> NaN]

Init ==
    /\ df \in Frames
    /\ columns = <<>>
    /\ pc = "idle"
    /\ run = 0
    /\ df_in = <<>>
    /\ concentration_units = <<>>
    /\ parameter_list = <<>>
    /\ directory = <<>>
    /\ parameter_weight = <<>>
    /\ error = "none"
    /\ raised_at = <<>>
    /\ conv = ConvIdle

\* a call of clean_dataframe: the first, or another one on the frame the
\* previous call left
CleanDataframe ==
    /\ pc \in {"idle", "returned"}
    /\ run < MaxRuns
    /\ pc' = "remove_nans"
    /\ run' = run + 1
    /\ df_in' = df
    /\ concentration_units' = <<>>
    /\ parameter_list' = <<>>
    /\ directory' = <<>>
    /\ parameter_weight' = <<>>
    /\ UNCHANGED <<df, columns, error, raised_at, conv>>

RemoveNans ==
    /\ pc = "remove_nans"
    /\ df' = remove_nans_frame(df)
    /\ pc' = "animal_age_transformation"
    /\ UNCHANGED <<columns, run, df_in, concentration_units, parameter_list, directory,
                   parameter_weight, error, raised_at, conv>>

AnimalAgeTransformation ==
    /\ pc = "animal_age_transformation"
    /\ df' = animal_age_transformation_frame(df)
    /\ columns' = WithColumn(columns, "age_at_start_days")
    /\ pc' = "timepoint_transformation"
    /\ UNCHANGED <<run, df_in, concentration_units, parameter_list, directory,
                   parameter_weight, error, raised_at, conv>>

TimepointTransformation ==
    /\ pc = "timepoint_transformation"
    /\ df' = timepoint_transformation_frame(df, columns)
    /\ columns' = WithColumn(WithColumn(columns, "timepoint_days"), "timepoint_age_days")
    /\ pc' = "get_concentration_units"
    /\ UNCHANGED <<run, df_in, concentration_units, parameter_list, directory,
                   parameter_weight, error, raised_at, conv>>

GetConcentrationUnits ==
    /\ pc = "get_concentration_units"
    /\ concentration_units' = get_concentration_units(df)
    /\ parameter_list' = param_from_conc_unit_list(df, get_concentration_units(df))
    /\ pc' = "get_parameter_weights"
    /\ UNCHANGED <<df, columns, run, df_in, directory, parameter_weight, error, raised_at,
                   conv>>

GetParameterWeights ==
    /\ pc = "get_parameter_weights"
    /\ \E dir \in [{ parameter_list[k] : k \in DOMAIN parameter_list } -> CompoundLists] :
          /\ directory' = dir
          /\ parameter_weight' = get_parameter_weights(parameter_list, dir)
    /\ pc' = "correct_units"
    /\ UNCHANGED <<df, columns, run, df_in, concentration_units, parameter_list, error,
                   raised_at, conv>>

CorrectUnits ==
    /\ pc = "correct_units"
    /\ LET out == correct_units_loop(df, columns, concentration_units, parameter_weight)
       IN  /\ df' = out.df
           /\ columns' = out.columns
           /\ error' = out.err
           /\ raised_at' = out.unit
           /\ pc' = IF out.err = "none" THEN "returned" ELSE "raised"
    /\ UNCHANGED <<run, df_in, concentration_units, parameter_list, directory,
                   parameter_weight, conv>>

Next ==
    \/ CleanDataframe
    \/ RemoveNans
    \/ AnimalAgeTransformation
    \/ TimepointTransformation
    \/ GetConcentrationUnits
    \/ GetParameterWeights
    \/ CorrectUnits

Spec == Init /\ [][Next]_vars

----------------------------------------------------------------------------
(* The conversion functions called on their own: the token list of a unit   *)
(* (the branches of correct_units) handed to convert_values_to_SI with a    *)
(* value and a weight.                                                      *)

UnitPool == { u_mg_dL, u_ug_mL, u_g_L, u_mmol_L, u_ratio, u_mg_kg_d_mL, u_nmol_min_mL,
              u_U_L, u_percent }

ValuePool == { Whole(50), Whole(10), Whole(1), Num(5, 2, 0) }

WeightPool == { w_glucose, w_other, Whole(500) }

InitConvert ==
    /\ df = <<>>
    /\ columns = <<>>
    /\ pc = "direct"
    /\ run = 0
    /\ df_in = <<>>
    /\ concentration_units = <<>>
    /\ parameter_list = <<>>
    /\ directory = <<>>
    /\ parameter_weight = <<>>
    /\ error = "none"
    /\ raised_at = <<>>
    /\ conv = ConvIdle

ConvertCall ==
    /\ conv.phase = "idle"
    /\ \E u \in UnitPool, v \in ValuePool, w \in WeightPool :
          conv' = [ConvIdle EXCEPT !.phase = "called", !.unit = u, !.value = v, !.weight = w]
    /\ UNCHANGED <<df, columns, pc, run, df_in, concentration_units, parameter_list,
                   directory, parameter_weight, error, raised_at>>

ConvertReturn ==
    /\ conv.phase = "called"
    /\ LET a == unit_args(conv.unit)
       IN  conv' = [conv EXCEPT !.phase = "returned",
                                !.err = a.err,
                                !.args = a.args,
                                !.result = IF a.err = "none"
                                           THEN convert_values_to_SI(conv.value, conv.weight, a.args)
                                           ELSE NaN]
    /\ UNCHANGED <<df, columns, pc, run, df_in, concentration_units, parameter_list,
                   directory, parameter_weight, error, raised_at>>

NextConvert == ConvertCall \/ ConvertReturn

SpecConvert == InitConvert /\ [][NextConvert]_vars

----------------------------------------------------------------------------
(* Properties *)

Labels(d) == { d[k].idx : k \in DOMAIN d }

AfterRemoveNans == pc = "animal_age_transformation"
AfterTimepointTransformation == pc = "get_concentration_units"
AfterGetParameterWeights == pc = "correct_units"
AfterCorrectUnits == pc \in {"returned", "raised"}

HasAverageValueFixed(r) == ~IsNaN(r.average_value_fixed)
HasUnitFixed(r) == r.unit_fixed # "NaN"

\* No call of clean_dataframe writes average_value_fixed or unit_fixed: with
\* a concentration-like unit in the frame correct_units raises at its first
\* call of values_to_SI, before the two assignments; without one the loop
\* body never runs.
NoRowIsConverted ==
    \A k \in DOMAIN df : ~HasAverageValueFixed(df[k]) /\ ~HasUnitFixed(df[k])

\* A call of clean_dataframe returns only when the frame has no
\* concentration-like unit.
ReturnsOnlyWithoutConcentrationUnits ==
    pc = "returned" => concentration_units = <<>>

\* On a second call of clean_dataframe that returns, every row has the
\* value_unit it had when the call began.
SecondRunKeepsValueUnit ==
    (pc = "returned" /\ run >= 2) =>
        \A k \in DOMAIN df :
            \E j \in DOMAIN df_in :
                df_in[j].idx = df[k].idx /\ df_in[j].value_unit = df[k].value_unit

\* The sum of the second call is taken over 'timepoint(days)' and
\* 'timepoint_age(days)', then the two rightmost columns of the frame.
SecondRunSumsOtherColumns ==
    (AfterTimepointTransformation /\ run >= 2) =>
        last_two(columns) = <<"timepoint_days", "timepoint_age_days">>

C3_ClaimedFormulas ==
    conv.phase = "returned" =>
        /\ conv.unit = u_ug_mL =>
              NumEq(conv.result,
                    Times(Times(Over(Times(conv.value, Num(1, 1, -3)), conv.weight),
                                Whole(1000)), Num(1, 1, -3)))
        /\ conv.unit = u_mg_dL =>
              NumEq(conv.result,
                    Times(Times(Over(conv.value, conv.weight), Whole(1000)), Num(1, 1, -1)))

\* C4 (as claimed): correct_units does not raise at a unit that splits on "/"
\* into more than three parts.
C4_NoRaiseOnMalformedUnit ==
    ~(pc = "raised" /\ Len(split(raised_at, "/")) > 3)

\* C5 (as claimed): after timepoint_transformation, timepoint_age_days is the
\* sum of age_at_start_days and timepoint_days when both are present and is
\* missing when either is missing.
C5_SumPropagatesMissing ==
    AfterTimepointTransformation =>
        \A k \in DOMAIN df :
            IF ~IsNaN(df[k].age_at_start_days) /\ ~IsNaN(df[k].timepoint_days)
            THEN NumEq(df[k].timepoint_age_days,
                       Plus(df[k].age_at_start_days, df[k].timepoint_days))
            ELSE IsNaN(df[k].timepoint_age_days)

\* C6 (as claimed): remove_nans removes every row with timepoint < 0 and
\* keeps every row with timepoint == 0, whatever its other fields.
C6_BoundaryAsClaimed ==
    AfterRemoveNans =>
        \A k \in DOMAIN df_in :
            /\ Negative(df_in[k].timepoint) => df_in[k].idx \notin Labels(df)
            /\ NumEq(df_in[k].timepoint, Whole(0)) => df_in[k].idx \in Labels(df)

\* C6 (amended): remove_nans removes every row with timepoint < 0 and keeps,
\* unchanged, every row with timepoint == 0 whose animal age is not missing.
C6_Boundary ==
    AfterRemoveNans =>
        \A k \in DOMAIN df_in :
            /\ Negative(df_in[k].timepoint) => df_in[k].idx \notin Labels(df)
            /\ (NumEq(df_in[k].timepoint, Whole(0)) /\ ~IsNaN(df_in[k].animal_age))
               => \E j \in DOMAIN df : df[j] = df_in[k]

\* C6 witness: remove_nans has removed a row with a negative timepoint and kept one with
\* timepoint 0
C6_Witness ==
    /\ AfterRemoveNans
    /\ \E k \in DOMAIN df_in : Negative(df_in[k].timepoint)
    /\ \E k \in DOMAIN df_in :
          /\ NumEq(df_in[k].timepoint, Whole(0))
          /\ df_in[k].idx \in Labels(df)

\* C7 (as claimed): after remove_nans no row has a missing or negative
\* timepoint, or a missing or negative animal age.
C7_NoNegativeOrMissing ==
    AfterRemoveNans =>
        \A k \in DOMAIN df :
            /\ ~IsNaN(df[k].timepoint) /\ ~Negative(df[k].timepoint)
            /\ ~IsNaN(df[k].animal_age) /\ ~Negative(df[k].animal_age)

\* the first match with a weight, NaN when no match has one
RECURSIVE first_weight(_)
first_weight(compounds) ==
    IF compounds = <<>> THEN NaN
    ELSE IF Truthy(Head(compounds)) THEN Head(compounds)
    ELSE first_weight(Tail(compounds))

\* C8 (as claimed): get_parameter_weights records for a name the weight of the
\* first match, in returned order, that has one.
C8_FirstMatchRecorded ==
    AfterGetParameterWeights =>
        \A p \in DOMAIN directory :
            ~IsNaN(first_weight(directory[p])) =>
                /\ p \in DOMAIN parameter_weight
                /\ parameter_weight[p] = first_weight(directory[p])

====
